---------------------------- MODULE Spec2Model ----------------------------
(*
  Model of the calculator engine of src/student_loan_calc.py: the sidebar
  inputs (lines 36-60), get_growth_rate (lines 73-78) and run_simulation
  (lines 80-142).

  Number representation.  The program computes in Python floats.  The model
  computes in fixed point: money is a whole number of pence, rates and
  fractions are whole parts per million (Unit == 1.0), and every product
  or quotient is rounded toward zero to that grid.  The rounding is monotone
  and sign-symmetric, as float rounding is.
*)
EXTENDS Integers, Sequences, FiniteSets, TLC

VARIABLES
    current_balance,   \* sidebar input, pence                       (line 39)
    annual_salary,     \* sidebar input, pence                       (line 40)
    career_type,       \* sidebar input                              (line 43)
    custom_rate,       \* sidebar input, ppm                         (lines 51-53)
    rpi,               \* sidebar input, ppm                         (line 56)
    extra_payment,     \* sidebar input, pence                       (line 60)
    data,              \* run_simulation: list of snapshot records   (line 81)
    total_paid,        \* run_simulation local, pence                (line 82)
    balance,           \* run_simulation local, pence                (line 83)
    salary,            \* run_simulation local, pence                (line 84)
    month,             \* loop variable of `for month in range(...)` (line 87)
    interest_rate,     \* run_simulation local, ppm                  (lines 95-99)
    interest_accrued,  \* run_simulation local, pence                (line 114)
    pc                 \* position in run_simulation: "loop", "after", "done"

vars == << current_balance, annual_salary, career_type, custom_rate, rpi,
           extra_payment, data, total_paid, balance, salary, month,
           interest_rate, interest_accrued, pc >>

inputs == << current_balance, annual_salary, career_type, custom_rate, rpi,
             extra_payment >>

-----------------------------------------------------------------------------
(* Units of the fixed-point representation. *)

Unit == 1000 * 1000                \* 1.0 as a rate or fraction, in ppm

(* Program constants, lines 68-71 (money in pounds, as in the source). *)
repayment_threshold == 27295
lower_interest_threshold == 28470
upper_interest_threshold == 51245
term_years == 30

Pence(pounds) == pounds * 100

-----------------------------------------------------------------------------
(* Bounds of the input grid. *)

MaxBalanceK == 3      \* balances  -15000, 0, 15000 .. MaxBalanceK * 15000 pounds
MaxSalaryK == 2       \* salaries  -30000, 0, 30000 .. MaxSalaryK * 30000 pounds
MaxCustomK == 2       \* custom growth 0, 2.5% .. MaxCustomK * 2.5%
MaxRpiK == 1          \* rpi 0, 3.5% .. MaxRpiK * 3.5%
MaxExtraK == 2        \* overpayment -250, 0, 250 .. MaxExtraK * 250 pounds

(* st.number_input without min_value accepts any integer, negative ones
   included (lines 39, 40, 60); the sliders keep rpi in [0, 15%] and the
   custom rate in [0, 10%] (lines 53, 56). *)
Balances == { Pence(k * 15 * 1000) : k \in -1..MaxBalanceK }
Salaries == { Pence(k * 30 * 1000) : k \in -1..MaxSalaryK }
              \cup { Pence(lower_interest_threshold), Pence(upper_interest_threshold) }
CareerTypes == { "Steady Growth (Public Sector/Standard)",
                 "Fast Track (Tech/Finance/Law)",
                 "Late Bloomer (Doctor/PhD)",
                 "Custom Flat Rate" }
DefaultCustomRate == 25 * 1000     \* custom_rate = 0.025 (line 51)
CustomRates == { k * 25 * 1000 : k \in 0..MaxCustomK }
Rpis == { k * 35 * 1000 : k \in 0..MaxRpiK }
ExtraPayments == { Pence(k * 250) : k \in -1..MaxExtraK }

-----------------------------------------------------------------------------
(* Fixed-point arithmetic. *)

RECURSIVE MulMod(_, _, _)
(* << q, r >> with a * b = q * c + r and 0 <= r < c, for 0 <= a < c and
   b >= 0, computed digit by digit so that no intermediate exceeds 19 * c. *)
MulMod(a, b, c) ==
    IF b = 0 THEN << 0, 0 >>
    ELSE LET h == MulMod(a, b \div 10, c)
             t == h[2] * 10 + a * (b % 10)
         IN  << h[1] * 10 + (t \div c), t % c >>

(* floor(a * b / c) for a, b >= 0 and c > 0, exactly. *)
MulDivNat(a, b, c) == (a \div c) * b + MulMod(a % c, b, c)[1]

(* a * b / c rounded toward zero, for b >= 0 and c > 0. *)
MulDiv(a, b, c) == IF a >= 0 THEN MulDivNat(a, b, c) ELSE -MulDivNat(-a, b, c)

(* a / c rounded toward zero, c > 0. *)
Div(a, c) == IF a >= 0 THEN a \div c ELSE -((-a) \div c)

-----------------------------------------------------------------------------
(* get_growth_rate, lines 73-78.  `"Steady" in type` is a substring test; on
   the four labels of the selectbox it selects exactly one label. *)

IsSteady(type) == type = "Steady Growth (Public Sector/Standard)"
IsFastTrack(type) == type = "Fast Track (Tech/Finance/Law)"
IsLate(type) == type = "Late Bloomer (Doctor/PhD)"

(* Mutant: the 'Late Bloomer' jump applied one year late (year <= 4 for
   year < 4). *)
get_growth_rate_LateJumpShifted(year, type, custom) ==
    IF type = "Custom Flat Rate" THEN custom
    ELSE IF IsSteady(type) THEN 25 * 1000
    ELSE IF IsFastTrack(type)
         THEN (IF year < 5 THEN 100 * 1000
               ELSE IF year < 10 THEN 50 * 1000 ELSE 30 * 1000)
    ELSE IF IsLate(type)
         THEN (IF year <= 4 THEN 10 * 1000
               ELSE IF year = 5 THEN 250 * 1000 ELSE 30 * 1000)
    ELSE 25 * 1000

get_growth_rate(year, type, custom) ==
    IF type = "Custom Flat Rate" THEN custom
    ELSE IF IsSteady(type) THEN 25 * 1000
    ELSE IF IsFastTrack(type)
         THEN (IF year < 5 THEN 100 * 1000
               ELSE IF year < 10 THEN 50 * 1000 ELSE 30 * 1000)
    ELSE IF IsLate(type)
         THEN (IF year < 4 THEN 10 * 1000
               ELSE IF year = 4 THEN 250 * 1000 ELSE 30 * 1000)
    ELSE 25 * 1000

-----------------------------------------------------------------------------
(* The body of the loop of run_simulation, lines 88-130, as operators. *)

TermMonths == term_years * 12

(* Annual salary bump, lines 88-92: the salary in force in month m. *)
SalaryBump(s, m) ==
    IF m > 0 /\ m % 12 = 0
    THEN MulDiv(s, Unit + get_growth_rate(m \div 12, career_type, custom_rate), Unit)
    ELSE s

(* Mutant: the cap at the upper threshold left out. *)
InterestRate_Uncapped(s) ==
    IF s <= Pence(lower_interest_threshold) THEN rpi
    ELSE rpi + MulDiv(s - Pence(lower_interest_threshold), 30 * 1000,
                      Pence(upper_interest_threshold - lower_interest_threshold))

(* 1. Interest rate, lines 95-99. *)
InterestRate(s) ==
    IF s <= Pence(lower_interest_threshold) THEN rpi
    ELSE IF s >= Pence(upper_interest_threshold) THEN rpi + 30 * 1000
    ELSE rpi + MulDiv(s - Pence(lower_interest_threshold), 30 * 1000,
                      Pence(upper_interest_threshold - lower_interest_threshold))

(* Mutant: the test `monthly_salary > monthly_thresh` left out. *)
MandatoryPay_Unguarded(s) ==
    Div((Div(s, 12) - Div(Pence(repayment_threshold), 12)) * 9, 100)

(* 2. Repayment, lines 104-109. *)
MandatoryPay(s) ==
    LET monthly_salary == Div(s, 12)
        monthly_thresh == Div(Pence(repayment_threshold), 12)
    IN  IF monthly_salary > monthly_thresh
        THEN Div((monthly_salary - monthly_thresh) * 9, 100)
        ELSE 0

(* Mutant: the overpayment subtracted instead of added. *)
TotalMonthlyPay_Subtracted(mandatory_pay, extra) == mandatory_pay - extra

(* Line 111. *)
TotalMonthlyPay(mandatory_pay, extra) == mandatory_pay + extra

(* monthly_rate = interest_rate / 12 and interest_accrued = balance *
   monthly_rate, lines 101 and 114. *)
InterestAccrued(b, rate) == MulDiv(b, rate, 12 * Unit)

(* Mutant: the snapshot's balance recorded without max(0, balance). *)
Snapshot_Unclamped(year, b, paid, s, interest) ==
    [ Year |-> year, Balance |-> b, Paid |-> paid,
      Salary |-> s, Interest |-> interest * 12 ]

(* The record appended to data, lines 120-126. *)
Snapshot(year, b, paid, s, interest) ==
    [ Year |-> year, Balance |-> IF b > 0 THEN b ELSE 0, Paid |-> paid,
      Salary |-> s, Interest |-> interest * 12 ]

(* Line 119. *)
RecordsMonth(m) == m % 12 = 0 \/ m = TermMonths - 1

(* Mutant: `balance = 0` left out before the break. *)
ClampedBalance_NoReset(raw) == raw

(* Lines 128-130: the balance the loop leaves behind. *)
ClampedBalance(raw) == IF raw <= 0 THEN 0 ELSE raw

-----------------------------------------------------------------------------
(* run_simulation as a state machine. *)

(* The state after the sidebar inputs are read and lines 81-84 have run. *)
Init ==
    /\ current_balance \in Balances
    /\ annual_salary \in Salaries
    /\ career_type \in CareerTypes
    /\ custom_rate \in (IF career_type = "Custom Flat Rate"
                        THEN CustomRates ELSE { DefaultCustomRate })
    /\ rpi \in Rpis
    /\ extra_payment \in ExtraPayments
    /\ data = << >>
    /\ total_paid = 0
    /\ balance = current_balance
    /\ salary = annual_salary
    /\ month = 0
    /\ interest_rate = 0
    /\ interest_accrued = 0
    /\ pc = "loop"

(* One iteration of the loop, lines 87-130. *)
MonthStep ==
    /\ pc = "loop"
    /\ LET s == SalaryBump(salary, month)
           rate == InterestRate(s)
           pay == TotalMonthlyPay(MandatoryPay(s), extra_payment)
           interest == InterestAccrued(balance, rate)
           raw == balance + interest - pay
           paid == total_paid + pay
       IN  /\ salary' = s
           /\ interest_rate' = rate
           /\ interest_accrued' = interest
           /\ total_paid' = paid
           /\ data' = IF RecordsMonth(month)
                      THEN Append(data, Snapshot(month \div 12, raw, paid, s, interest))
                      ELSE data
           /\ balance' = ClampedBalance(raw)
           /\ IF raw <= 0 \/ month = TermMonths - 1
              THEN month' = month /\ pc' = "after"
              ELSE month' = month + 1 /\ pc' = "loop"
    /\ UNCHANGED inputs

(* After the loop, lines 132-142: the 'Year 30' record and the return. *)
Finish ==
    /\ pc = "after"
    /\ data' = IF balance > 0
               THEN Append(data, [ Year |-> 30, Balance |-> balance,
                                   Paid |-> total_paid, Salary |-> salary,
                                   Interest |-> 0 ])
               ELSE data
    /\ pc' = "done"
    /\ UNCHANGED << inputs, total_paid, balance, salary, month, interest_rate,
                    interest_accrued >>

Next == MonthStep \/ Finish

Spec == Init /\ [][Next]_vars

-----------------------------------------------------------------------------
(* run_simulation as a function of the overpayment: the month at which the
   loop of lines 87-130 stops and the balance it returns, from month m with
   balance b and salary s, all other inputs as in the current state.  The
   loop is evaluated a year at a time (MonthsFrom runs the months m..last)
   only to keep the depth of the recursion small. *)

RECURSIVE MonthsFrom(_, _, _, _, _)
MonthsFrom(m, b, s, extra, last) ==
    LET s2 == SalaryBump(s, m)
        raw == b + InterestAccrued(b, InterestRate(s2))
                 - TotalMonthlyPay(MandatoryPay(s2), extra)
    IN  IF raw <= 0 \/ m = TermMonths - 1
        THEN [ month |-> m, balance |-> ClampedBalance(raw), salary |-> s2,
               stopped |-> TRUE ]
        ELSE IF m = last
        THEN [ month |-> m, balance |-> raw, salary |-> s2, stopped |-> FALSE ]
        ELSE MonthsFrom(m + 1, raw, s2, extra, last)

RECURSIVE RunFrom(_, _, _, _)
RunFrom(m, b, s, extra) ==
    LET r == MonthsFrom(m, b, s, extra, m + 11)
    IN  IF r.stopped
        THEN [ month |-> r.month, balance |-> r.balance ]
        ELSE RunFrom(m + 12, r.balance, r.salary, extra)

(* The state machine and RunFrom compute the same run. *)
RunFromAgrees ==
    pc = "done" =>
        RunFrom(0, current_balance, annual_salary, extra_payment)
            = [ month |-> month, balance |-> balance ]

-----------------------------------------------------------------------------
(* The inputs the specification calls valid. *)

ValidInput ==
    /\ current_balance >= 0
    /\ annual_salary >= 0
    /\ extra_payment >= 0
    /\ rpi >= 0 /\ rpi <= Unit

Cleared == pc = "done" /\ balance = 0
TermExhausted == pc = "done" /\ balance > 0

-----------------------------------------------------------------------------
(* C1: on a valid input every snapshot in data, the 'Year 30' record
   included, has Balance >= 0. *)
C1_SnapshotBalanceNonNegative ==
    ValidInput => \A i \in 1..Len(data) : data[i].Balance >= 0

(* A cleared run whose clearing month is recorded: the snapshot of a month in
   which the payment overshot the debt (a zero balance and a positive
   payment bring the raw balance below zero). *)
C1_Witness ==
    /\ ValidInput /\ Cleared
    /\ current_balance = 0 /\ total_paid > 0
    /\ data[Len(data)].Balance = 0

(* C2: on a valid input total_paid never decreases from one step to the
   next, and the Paid values of successive snapshots never decrease. *)
C2_PaidNonDecreasing ==
    [][ ValidInput =>
          /\ total_paid' >= total_paid
          /\ \A i \in 1..(Len(data') - 1) : data'[i].Paid <= data'[i + 1].Paid ]_vars

C2_Witness ==
    /\ ValidInput /\ Len(data) >= 3
    /\ data[1].Paid < data[2].Paid /\ data[2].Paid < data[3].Paid

(* C3: on a valid input the run ends in exactly one of two states.  While
   the loop runs, every month already simulated left a balance > 0 (so the
   loop stops at the first month with balance <= 0); after the loop either
   the balance is exactly 0 (Cleared) or all term_years * 12 months were
   simulated and the balance is > 0 (TermExhausted).  Every step either
   moves the loop to the next month, leaves the loop, or returns, so a run
   ends after at most term_years * 12 iterations. *)
C3_StateInvariant ==
    ValidInput =>
        /\ month \in 0..(TermMonths - 1)
        /\ pc \in { "loop", "after", "done" }
        /\ pc = "loop" =>
             \/ month = 0 /\ balance = current_balance /\ data = << >>
             \/ month > 0 /\ balance > 0
        /\ pc \in { "after", "done" } =>
             \/ balance = 0
             \/ balance > 0 /\ month = TermMonths - 1

C3_Progress ==
    /\ pc = "loop" => \/ pc' = "loop" /\ month' = month + 1 /\ balance' > 0
                      \/ pc' = "after" /\ month' = month
    /\ pc = "after" => pc' = "done" /\ balance' = balance /\ month' = month
    /\ pc # "done"

(* C3: the state invariant and the progress of every step, together. *)
C3_TwoTerminalStates == []C3_StateInvariant /\ [][ValidInput => C3_Progress]_vars

C3_Witness ==
    ValidInput /\ Cleared /\ month > 0 /\ month < TermMonths - 1

(* C4: with every other input fixed, a larger overpayment p2 >= p1 returns a
   final balance no larger, and if the run with p1 is Cleared the run with
   p2 is Cleared in a month no later. *)
C4_OverpaymentMonotone ==
    (pc = "done" /\ ValidInput) =>
        \A p2 \in ExtraPayments :
            p2 >= extra_payment =>
                LET r2 == RunFrom(0, current_balance, annual_salary, p2)
                IN  /\ r2.balance <= balance
                    /\ balance = 0 =>
                         /\ r2.balance = 0
                         /\ r2.month <= month
                         /\ r2.month \div 12 <= month \div 12

C4_Witness ==
    /\ ValidInput /\ Cleared /\ month > 12
    /\ \E p2 \in ExtraPayments :
          /\ p2 > extra_payment
          /\ RunFrom(0, current_balance, annual_salary, p2).month < month

(* C5: with an initial balance of 0 and any salary >= 0 and overpayment
   >= 0, the run stops in month 0 with final balance 0 and total_paid 0. *)
C5_ZeroBalanceNothingPaid ==
    (pc = "done" /\ ValidInput /\ current_balance = 0) =>
        /\ month = 0
        /\ balance = 0
        /\ total_paid = 0

(* C6: in the month in which the balance crosses to <= 0, total_paid grows
   only by what was needed to bring the balance to zero: the balance
   carried into the month plus the interest accrued in it. *)
C6_CrossingMonthPaysOnlyTheDebt ==
    [][ (ValidInput /\ pc = "loop" /\ pc' = "after" /\ balance' = 0) =>
          total_paid' - total_paid = balance + interest_accrued' ]_vars

(* C7: when the run is done, data holds a snapshot for month 0, one for
   every simulated month that is a multiple of 12, and its last snapshot
   shows the state after the final simulated month: the returned balance
   and the returned total_paid. *)
C7_LastSnapshotIsFinalState ==
    (pc = "done" /\ ValidInput) =>
        /\ Len(data) > 0
        /\ data[1].Year = 0
        /\ \A y \in 0..(month \div 12) : \E i \in 1..Len(data) : data[i].Year = y
        /\ data[Len(data)].Balance = balance
        /\ data[Len(data)].Paid = total_paid

(* C8: on an input that violates the stated invariants no month is
   simulated and no snapshot sequence, final balance or total_paid is
   produced. *)
C8_InvalidInputNeverSimulated ==
    ~ValidInput => (pc = "loop" /\ month = 0 /\ data = << >> /\ total_paid = 0)

(* C9: the annual interest rate used in a simulated month lies in
   [rpi, rpi + 0.03]; it is rpi when the salary of that month is <= 28470,
   rpi + 0.03 when it is >= 51245, and rpi + 0.03 * (salary - 28470) /
   (51245 - 28470) in between. *)
C9_InterestRateBand ==
    Len(data) > 0 =>
        /\ rpi <= interest_rate /\ interest_rate <= rpi + 30000
        /\ salary <= 2847000 => interest_rate = rpi
        /\ salary >= 5124500 => interest_rate = rpi + 30000
        /\ (salary > 2847000 /\ salary < 5124500) =>
              interest_rate = rpi + MulDiv(salary - 2847000, 30000, 5124500 - 2847000)

C9_Witness ==
    /\ Len(data) > 0 /\ month > 12
    /\ salary > 2847000 /\ salary < 5124500 /\ salary # annual_salary
    /\ interest_rate > rpi /\ interest_rate < rpi + 30000

(* C10: the salary changes only in months m > 0 with m % 12 = 0, where it is
   multiplied once by 1 + the growth rate of year index m \div 12: for 'Late
   Bloomer' 0.01 below year 4, 0.25 at year 4 and 0.03 above; for 'Fast
   Track' 0.10 below year 5, 0.05 for years 5 to 9 and 0.03 from year 10;
   0.025 for 'Steady Growth' and the custom rate for 'Custom Flat Rate'. *)
C10_ClaimedRate(y) ==
    CASE career_type = "Late Bloomer (Doctor/PhD)" ->
            (IF y \in 0..3 THEN 10000 ELSE IF y = 4 THEN 250000 ELSE 30000)
      [] career_type = "Fast Track (Tech/Finance/Law)" ->
            (IF y \in 0..4 THEN 100000 ELSE IF y \in 5..9 THEN 50000 ELSE 30000)
      [] career_type = "Steady Growth (Public Sector/Standard)" -> 25000
      [] OTHER -> custom_rate

(* C10: every step changes the salary as claimed, and only in the months
   m > 0 with m % 12 = 0. *)
C10_SalaryGrowth ==
    [][ /\ pc = "loop" =>
            salary' = IF month > 0 /\ month % 12 = 0
                      THEN MulDiv(salary, Unit + C10_ClaimedRate(month \div 12), Unit)
                      ELSE salary
        /\ pc # "loop" => salary' = salary ]_vars

C10_Witness ==
    /\ career_type = "Late Bloomer (Doctor/PhD)"
    /\ pc = "loop" /\ month = 62 /\ annual_salary > 0
    /\ salary > annual_salary

=============================================================================
